---- MODULE Spec2Model ----
(***************************************************************************)
(* Deployment lifecycle of the ecommerce-app container on one target host. *)
(* A deployment attempt runs the four lifecycle hook scripts               *)
(*   before_install, application_stop, application_start, validate_service *)
(* in that order; a hook that exits non-zero ends the attempt as Failed.   *)
(* Each hook script is one action; its body is the script, command by      *)
(* command, applied to the state of the host.                              *)
(* The module also holds the shop page served by the container (script.js: *)
(* cart, localStorage, sidebar), the cleanup script and the setup helper   *)
(* script, each with its own specification: ShopSpec, CleanupSpec,         *)
(* HelperSpec.                                                             *)
(***************************************************************************)
EXTENDS Integers, Sequences, FiniteSets, TLC

VARIABLES env, host, pc, log, outcome, obs,
          products, cart, localStorage, cartSidebar, cartDisplay, notification, lastCall,
          stage, exitStatus, typed, scanned, issued,
          position, exitCode, choice, shown, report

\* the deployment on the target host
hookVars == <<env, host, pc, log, outcome, obs>>

\* the shop page in the browser (script.js)
shopVars == <<products, cart, localStorage, cartSidebar, cartDisplay, notification, lastCall>>

\* a run of the cleanup script
cleanupVars == <<stage, exitStatus, typed, scanned, issued>>

\* a run of the setup helper script
helperVars == <<position, exitCode, choice, shown, report>>

vars == <<hookVars, shopVars, cleanupVars, helperVars>>

notShop == <<hookVars, cleanupVars, helperVars>>

notCleanup == <<hookVars, shopVars, helperVars>>

notHelper == <<hookVars, shopVars, cleanupVars>>

\* the deploy calls that may be issued for the one target host
Attempts == {"first", "second"}

(* ------------------------- names and constants ------------------------- *)

\* image currently published under the tag the scripts pull (IMAGE_TAG="latest")
NewImage == "v2"

\* image left on the host by the previous deployment
OldImage == "v1"

NoImage == "none"

\* the order in which the deployment agent runs the hook scripts
HookOrder == <<"before_install", "application_stop", "application_start", "validate_service">>

Primary == <<"BeforeInstall", "Stopping", "Installing", "Starting", "Validating">>

Rollback == <<"Stopping", "Installing", "Starting", "Validating">>

Entry(p, r, m, f) == [phase |-> p, result |-> r, message |-> m, cmdFailed |-> f]

Last(s) == s[Len(s)]

(* --------------------------- response bodies ---------------------------- *)

EmptyBody == <<>>

\* "ecommerce ok"
BodyEcommerceOk == << <<"e","c","o","m","m","e","r","c","e"," ","o","k">> >>

\* "nginx" / "Shop"
BodyShopSecondLine == << <<"n","g","i","n","x">>, <<"S","h","o","p">> >>

\* "502 bad"
BodyNoMarker == << <<"5","0","2"," ","b","a","d">> >>

Bodies == {EmptyBody, BodyEcommerceOk, BodyShopSecondLine, BodyNoMarker}

\* the alternatives of the grep pattern "ecommerce\|shop\|product"
Markers == { <<"e","c","o","m","m","e","r","c","e">>, <<"s","h","o","p">>, <<"p","r","o","d","u","c","t">> }

\* grep -i: case is folded before comparing
Lower(c) ==
  CASE c = "S" -> "s"
    [] c = "E" -> "e"
    [] c = "P" -> "p"
    [] OTHER -> c

LowerLine(line) == [i \in 1..Len(line) |-> Lower(line[i])]

Contains(line, pat) ==
  \E k \in 0..(Len(line) - Len(pat)) : \A j \in 1..Len(pat) : line[k + j] = pat[j]

LineMatches(line) == \E m \in Markers : Contains(LowerLine(line), m)

\* curl -s http://localhost/ | grep -i "ecommerce\|shop\|product" | head -1
FirstMatch(body) ==
  LET hits == {i \in 1..Len(body) : LineMatches(body[i])}
  IN IF hits = {} THEN <<>> ELSE body[CHOOSE i \in hits : \A j \in hits : i <= j]

(* ------------------- commands the scripts invoke ----------------------- *)

Res(h, code) == [h |-> h, exit |-> code]

\* command -v docker
HasDocker(h) == h.installed

\* sudo yum install -y docker
YumInstallDocker(h) ==
  IF env.runtime = "missing" THEN Res([h EXCEPT !.installed = TRUE], 0) ELSE Res(h, 1)

\* sudo systemctl start docker
SystemctlStartDocker(h) ==
  IF h.installed /\ env.runtime \in {"ok", "missing"}
  THEN Res([h EXCEPT !.daemon = TRUE], 0)
  ELSE Res(h, 1)

\* curl awscli-exe-linux-x86_64.zip; unzip; sudo ./aws/install
InstallAwsCli(h) ==
  IF env.runtime # "unavailable" THEN Res([h EXCEPT !.aws = TRUE], 0) ELSE Res(h, 1)

Exists(h) == h.daemon /\ h.cstate # "absent"

\* sudo docker stop ecommerce-app
DockerStop(h) ==
  IF ~Exists(h) THEN Res(h, 1)
  ELSE IF h.cstate \in {"running", "restarting"} /\ ~env.stopOk THEN Res(h, 1)
  ELSE Res([h EXCEPT !.cstate = "exited"], 0)

\* sudo docker rm ecommerce-app
DockerRm(h) ==
  IF Exists(h) /\ h.cstate = "exited"
  THEN Res([h EXCEPT !.cstate = "absent", !.cimage = NoImage], 0)
  ELSE Res(h, 1)

\* aws sts get-caller-identity --query Account
AwsAccountId(h) == IF h.aws /\ env.registry # "no_creds" THEN Res(h, 0) ELSE Res(h, 1)

\* aws ecr describe-repositories --repository-names $IMAGE_REPO_NAME
DescribeRepositories(h) ==
  IF h.aws /\ env.registry \notin {"no_creds", "no_repo"} THEN Res(h, 0) ELSE Res(h, 1)

\* aws ecr get-login-password | sudo docker login --password-stdin
\* (the status of the pipeline is that of docker login)
EcrLogin(h) ==
  IF h.daemon /\ h.aws /\ env.registry # "no_creds"
  THEN Res([h EXCEPT !.login = TRUE], 0)
  ELSE Res(h, 1)

Pullable(h) == h.daemon /\ h.login /\ env.registry = "ok"

\* sudo docker pull <account>.dkr.ecr.<region>.amazonaws.com/ecommerce-app:latest
DockerPull(h) ==
  IF Pullable(h) THEN Res([h EXCEPT !.cache = NewImage], 0) ELSE Res(h, 1)

\* sudo docker run -d --name ecommerce-app -p 80:80 --restart unless-stopped <image>
\* the name must be free; an image missing from the local cache is pulled
DockerRun(h) ==
  IF ~h.daemon \/ h.cstate # "absent" THEN Res(h, 1)
  ELSE IF h.cache # NoImage
       THEN Res([h EXCEPT !.cstate = env.launch, !.cimage = h.cache], 0)
  ELSE IF Pullable(h)
       THEN Res([h EXCEPT !.cstate = env.launch, !.cimage = NewImage, !.cache = NewImage], 0)
  ELSE Res(h, 1)

NameConflict == "Conflict. The container name is already in use"

\* what docker run reports when it fails
RunError(h) ==
  IF ~h.daemon THEN "Cannot connect to the Docker daemon"
  ELSE IF h.cstate # "absent" THEN NameConflict
  ELSE "Unable to find image"

\* sudo docker ps | grep -q ecommerce-app
DockerPsGrep(h) == h.daemon /\ h.cstate \in {"running", "restarting"}

\* sudo docker inspect --format='{{.State.Status}}' ecommerce-app
DockerInspect(h) == IF Exists(h) THEN h.cstate ELSE ""

Serving(h) == h.daemon /\ h.cstate = "running"

\* curl -s -o /dev/null -w "%{http_code}" http://localhost/ || echo "000"
HttpCode(h) == IF Serving(h) THEN env.httpCode ELSE "000000"

\* curl -s http://localhost/
HttpBody(h) == IF Serving(h) THEN env.body ELSE EmptyBody

\* curl -s -w "%{time_total}" -o /dev/null http://localhost/
\* (the time is compared here with the ceiling the deployment is meant to keep)
ResponseTime(h) == env.latency

\* curl -f -s http://localhost/ > /dev/null
CurlFail(h) == IF Serving(h) /\ env.httpCode \in {"200", "301"} THEN 0 ELSE 1

\* a fallback that is missing: the status of the command reaches set -e
OrTrue_propagate(code) == code

\* command || true, command || echo "..." : the failure is swallowed
OrTrue(code) == 0

(* --------------------------- the hook scripts -------------------------- *)

Out(h, code, entries, o) == [h |-> h, exit |-> code, entries |-> entries, obs |-> o]

\* nothing probed yet, no reference of the previous container kept
NoObs ==
  [ status |-> "", http |-> "", probes |-> 0, response |-> <<>>, responseTime |-> "",
    previous |-> NoImage ]

\* a stop or remove that fails although the container is there
Stuck(h, r) == Exists(h) /\ r.exit # 0

\* before_install.sh (no set -e: the status of the script is that of its last echo)
before_install(h) ==
  LET inst == IF ~HasDocker(h) THEN YumInstallDocker(h) ELSE Res(h, 0)
      strt == SystemctlStartDocker(inst.h)
      awsi == IF ~strt.h.aws THEN InstallAwsCli(strt.h) ELSE Res(strt.h, 0)
      stop == DockerStop(awsi.h)
      rm   == DockerRm(stop.h)
      bad  == inst.exit # 0 \/ strt.exit # 0 \/ awsi.exit # 0
              \/ Stuck(awsi.h, stop) \/ Stuck(stop.h, rm)
  IN Out(rm.h, 0, <<Entry("BeforeInstall", "ok", "Before install phase completed successfully", bad)>>, NoObs)

\* application_stop.sh (set -e)
application_stop(h) ==
  LET stop == DockerStop(h)
      rm   == DockerRm(stop.h)
  IN IF OrTrue(stop.exit) # 0
     THEN Out(stop.h, stop.exit, <<Entry("Stopping", "fail", "", TRUE)>>, NoObs)
     ELSE IF OrTrue(rm.exit) # 0
     THEN Out(rm.h, rm.exit, <<Entry("Stopping", "fail", "", TRUE)>>, NoObs)
     ELSE Out(rm.h, 0,
              <<Entry("Stopping", "ok", "Application stop phase completed successfully",
                      Stuck(h, stop) \/ Stuck(stop.h, rm))>>, NoObs)

InstallOk == Entry("Installing", "ok", "", FALSE)

InstallFail(m) == Entry("Installing", "fail", m, TRUE)

StartOk == Entry("Starting", "ok", "", FALSE)

StartFail(m) == Entry("Starting", "fail", m, TRUE)

\* application_start, the variant that begins with set -e
application_start_set_e(h) ==
  LET acct  == AwsAccountId(h)
      repo  == DescribeRepositories(acct.h)
      login == EcrLogin(repo.h)
      pull1 == DockerPull(login.h)
      run1  == DockerRun(pull1.h)
      pull2 == DockerPull(run1.h)
      run2  == DockerRun(pull2.h)
  IN IF acct.exit # 0 THEN Out(acct.h, acct.exit, <<InstallFail("")>>, NoObs)
     ELSE IF repo.exit # 0
     THEN Out(repo.h, 1, <<InstallFail("ECR repository does not exist")>>, NoObs)
     ELSE IF login.exit # 0 THEN Out(login.h, login.exit, <<InstallFail("")>>, NoObs)
     ELSE IF pull1.exit # 0 THEN Out(pull1.h, pull1.exit, <<InstallFail("")>>, NoObs)
     ELSE IF run1.exit # 0
     THEN Out(run1.h, run1.exit, <<InstallOk, StartFail(RunError(pull1.h))>>, NoObs)
     ELSE IF pull2.exit # 0
     THEN Out(pull2.h, pull2.exit, <<InstallOk, StartOk, InstallFail("")>>, NoObs)
     ELSE IF run2.exit # 0
     THEN Out(run2.h, run2.exit,
              <<InstallOk, StartOk, InstallOk, StartFail(RunError(pull2.h))>>, NoObs)
     ELSE IF ~DockerPsGrep(run2.h)
     THEN Out(run2.h, 1,
              <<InstallOk, StartOk, InstallOk, StartFail("Container failed to start")>>, NoObs)
     ELSE Out(run2.h, 0, <<InstallOk, StartOk, InstallOk, StartOk>>, NoObs)

\* application_start, the variant without set -e and with hardcoded account values
application_start_no_set_e(h) ==
  LET stop  == DockerStop(h)
      rm    == DockerRm(stop.h)
      login == EcrLogin(rm.h)
      pull  == DockerPull(login.h)
      run   == DockerRun(pull.h)
      up    == DockerPsGrep(run.h)
      pre   == << Entry("Stopping", "ok", "", Stuck(h, stop) \/ Stuck(stop.h, rm)),
                  Entry("Installing", "ok", "", login.exit # 0 \/ pull.exit # 0) >>
  IN IF up
     THEN Out(run.h, 0,
              pre \o <<Entry("Starting", "ok", "Container started successfully", run.exit # 0)>>,
              NoObs)
     ELSE Out(run.h, 1, pre \o <<StartFail("Container failed to start")>>, NoObs)

application_start(h) ==
  IF env.variant = "set_e" THEN application_start_set_e(h) ELSE application_start_no_set_e(h)

\* a content test that accepts any response
ContentOk_any(response) == TRUE

\* [ -n "$RESPONSE" ]
ContentOk(response) == response # <<>>

ValidateFail(m) == <<Entry("Validating", "fail", m, TRUE)>>

\* validate_service.sh (set -e)
validate_service(h) ==
  LET status == DockerInspect(h)
      code   == HttpCode(h)
      resp   == FirstMatch(HttpBody(h))
      o1     == [NoObs EXCEPT !.status = status]
      o2     == [o1 EXCEPT !.http = code, !.probes = @ + 1]
      o3     == [o2 EXCEPT !.response = resp]
      o4     == [o3 EXCEPT !.responseTime = ResponseTime(h)]
  IN IF ~DockerPsGrep(h)
     THEN Out(h, 1, ValidateFail("Docker container is not running"), NoObs)
     ELSE IF status # "running"
     THEN Out(h, 1, ValidateFail("Container status"), o1)
     ELSE IF code # "200"
     THEN Out(h, 1, ValidateFail("HTTP response"), o2)
     ELSE IF ~ContentOk(resp)
     THEN Out(h, 1, ValidateFail("Application content validation failed"), o3)
     ELSE IF ~Serving(h)
     THEN Out(h, 1, ValidateFail(""), o3)
     ELSE IF CurlFail(h) # 0
     THEN Out(h, 1, ValidateFail("Final validation failed"), o4)
     ELSE Out(h, 0,
              <<Entry("Validating", "ok", "Application deployment validated successfully", FALSE)>>,
              o4)

(* ------------------------- the shop page (script.js) -------------------- *)

\* how many entries of the catalog are kept
CatalogSize == 2

\* the largest quantity of one cart item
MaxQuantity == 3

\* the largest step of a quantity change, up or down
MaxChange == 2

\* getDefaultProducts: the names by id
DefaultNames ==
  << "AWS Cloud Practitioner Guide", "DevOps Toolkit", "Cloud Engineer T-Shirt",
     "Kubernetes Handbook", "CI/CD Pipeline Laptop", "Docker Hoodie",
     "Terraform Guide", "Monitoring Dashboard" >>

\* getDefaultProducts: the prices by id, in cents
DefaultPrices == <<2999, 19999, 2499, 3499, 89999, 3999, 3299, 29999>>

getDefaultProducts ==
  [i \in 1..CatalogSize |-> [id |-> i, name |-> DefaultNames[i], price |-> DefaultPrices[i]]]

\* the product ids a caller may pass: those of the catalog and one that is not in it
ProductIds == 1..(CatalogSize + 1)

Changes == (0 - MaxChange)..MaxChange

\* localStorage.getItem of a key that was never set
null == <<"null">>

DigitChars == <<"0", "1", "2", "3", "4", "5", "6", "7", "8", "9">>

RECURSIVE Digits(_)
Digits(n) == IF n < 10 THEN <<DigitChars[n + 1]>> ELSE Digits(n \div 10) \o <<DigitChars[(n % 10) + 1]>>

\* a conversion that keeps the last digit only
NumberToString_lastDigit(n) == <<DigitChars[(n % 10) + 1]>>

\* JSON.stringify of an integer
NumberToString(n) == IF n < 0 THEN <<"-">> \o Digits(0 - n) ELSE Digits(n)

\* JSON.stringify of a price: units, then the cents without trailing zeros
PriceToString(c) ==
  NumberToString(c \div 100) \o
    ( IF c % 100 = 0 THEN <<>>
      ELSE IF c % 10 = 0 THEN <<".">> \o Digits((c % 100) \div 10)
      ELSE <<".">> \o Digits((c % 100) \div 10) \o Digits(c % 10) )

DigitValue(ch) == (CHOOSE d \in 1..10 : DigitChars[d] = ch) - 1

RECURSIVE Natural(_)
Natural(s) == IF s = <<>> THEN 0 ELSE 10 * Natural(SubSeq(s, 1, Len(s) - 1)) + DigitValue(s[Len(s)])

\* JSON.parse of an integer
StringToNumber(s) == IF s[1] = "-" THEN 0 - Natural(Tail(s)) ELSE Natural(s)

\* JSON.parse of a price, in cents
StringToPrice(s) ==
  LET dots == {i \in 1..Len(s) : s[i] = "."}
      dot  == IF dots = {} THEN Len(s) + 1 ELSE CHOOSE i \in dots : TRUE
      frac == SubSeq(s, dot + 1, Len(s))
  IN 100 * Natural(SubSeq(s, 1, dot - 1))
       + ( IF Len(frac) = 0 THEN 0
           ELSE IF Len(frac) = 1 THEN 10 * Natural(frac)
           ELSE Natural(SubSeq(frac, 1, 2)) )

\* JSON.stringify(cart): "[", one object per item, "]"
JSONstringify(c) ==
  <<"[">> \o
  [i \in 1..Len(c) |->
     [ id       |-> NumberToString(c[i].id),
       name     |-> <<"\"", c[i].name, "\"">>,
       price    |-> PriceToString(c[i].price),
       quantity |-> NumberToString(c[i].quantity) ]] \o
  <<"]">>

\* JSON.parse(savedCart)
JSONparse(text) ==
  [i \in 1..(Len(text) - 2) |->
     [ id       |-> StringToNumber(text[i + 1].id),
       name     |-> text[i + 1].name[2],
       price    |-> StringToPrice(text[i + 1].price),
       quantity |-> StringToNumber(text[i + 1].quantity) ]]

\* if (savedCart): null and the empty string are falsy
Truthy(value) == value # null /\ Len(value) > 0

\* products.find(p => p.id === productId), cart.find(item => item.id === productId):
\* the position of the first match, 0 when there is none
Find(list, id) ==
  LET hits == {i \in 1..Len(list) : list[i].id = id}
  IN IF hits = {} THEN 0 ELSE CHOOSE i \in hits : \A j \in hits : i <= j

RECURSIVE Filter(_, _)
\* cart.filter(item => item.id !== productId)
Filter(c, id) ==
  IF c = <<>> THEN <<>>
  ELSE IF c[1].id # id THEN <<c[1]>> \o Filter(Tail(c), id)
  ELSE Filter(Tail(c), id)

RECURSIVE TotalItems(_)
\* cart.reduce((sum, item) => sum + item.quantity, 0)
TotalItems(c) == IF c = <<>> THEN 0 ELSE c[1].quantity + TotalItems(Tail(c))

RECURSIVE Total(_)
\* cart.reduce((sum, item) => sum + (item.price * item.quantity), 0), in cents
Total(c) == IF c = <<>> THEN 0 ELSE c[1].price * c[1].quantity + Total(Tail(c))

\* updateCartDisplay: the texts of cartCount and cartTotal
updateCartDisplay(c) == [cartCount |-> TotalItems(c), cartTotal |-> Total(c)]

\* saveCartToStorage
saveCartToStorage(c) == JSONstringify(c)

\* classList.toggle('open')
Toggle(classList) == IF "open" \in classList THEN classList \ {"open"} ELSE classList \cup {"open"}

\* a cart that takes a second entry for a product it already holds
CartAfterAdd_push(c, product) ==
  Append(c, [id |-> product.id, name |-> product.name, price |-> product.price, quantity |-> 1])

\* the cart of addToCart: existingItem.quantity += 1, or push({...product, quantity: 1})
CartAfterAdd(c, product) ==
  IF Find(c, product.id) # 0
  THEN [c EXCEPT ![Find(c, product.id)].quantity = @ + 1]
  ELSE Append(c, [id |-> product.id, name |-> product.name, price |-> product.price, quantity |-> 1])

\* an item is dropped only below zero
Exhausted_belowZero(quantity) == quantity < 0

\* item.quantity <= 0
Exhausted(quantity) == quantity <= 0

\* a checkout that does not look at the cart
CartIsEmpty_never(c) == FALSE

\* cart.length === 0
CartIsEmpty(c) == Len(c) = 0

Call(op, id, change, found) == [op |-> op, id |-> id, change |-> change, found |-> found]

Notice(message, type) == [message |-> message, type |-> type]

\* the page as the browser builds it, before the script has run
PageNotOpened ==
  /\ products = <<>>
  /\ cart = <<>>
  /\ localStorage = null
  /\ cartSidebar = {}
  /\ cartDisplay = [cartCount |-> 0, cartTotal |-> 0]
  /\ notification = Notice("", "")
  /\ lastCall = Call("", 0, 0, FALSE)

\* loadProducts: products.json is not served, the default products are taken
LoadProducts ==
  /\ UNCHANGED notShop
  /\ products = <<>>
  /\ products' = getDefaultProducts
  /\ lastCall' = Call("loadProducts", 0, 0, TRUE)
  /\ UNCHANGED <<cart, localStorage, cartSidebar, cartDisplay, notification>>

AddToCart(productId) ==
  LET p == Find(products, productId)
  IN /\ UNCHANGED notShop
     /\ IF p = 0
        THEN /\ lastCall' = Call("addToCart", productId, 0, FALSE)
             /\ UNCHANGED <<products, cart, localStorage, cartSidebar, cartDisplay, notification>>
        ELSE /\ \A i \in 1..Len(cart) : cart[i].id = productId => cart[i].quantity < MaxQuantity
             /\ cart' = CartAfterAdd(cart, products[p])
             /\ cartDisplay' = updateCartDisplay(cart')
             /\ localStorage' = saveCartToStorage(cart')
             /\ notification' = Notice("added to cart!", "success")
             /\ lastCall' = Call("addToCart", productId, 0, TRUE)
             /\ UNCHANGED <<products, cartSidebar>>

RemoveFromCart(productId) ==
  /\ UNCHANGED notShop
  /\ cart' = Filter(cart, productId)
  /\ cartDisplay' = updateCartDisplay(cart')
  /\ localStorage' = saveCartToStorage(cart')
  /\ lastCall' = Call("removeFromCart", productId, 0, Find(cart, productId) # 0)
  /\ UNCHANGED <<products, cartSidebar, notification>>

\* item.quantity += change, then removeFromCart when nothing is left
UpdateCartQuantity(productId, change) ==
  LET i == Find(cart, productId)
  IN /\ UNCHANGED notShop
     /\ IF i = 0
        THEN /\ lastCall' = Call("updateCartQuantity", productId, change, FALSE)
             /\ UNCHANGED <<products, cart, localStorage, cartSidebar, cartDisplay, notification>>
        ELSE /\ cart[i].quantity + change <= MaxQuantity
             /\ cart' = IF Exhausted(cart[i].quantity + change)
                        THEN Filter([cart EXCEPT ![i].quantity = @ + change], productId)
                        ELSE [cart EXCEPT ![i].quantity = @ + change]
             /\ cartDisplay' = updateCartDisplay(cart')
             /\ localStorage' = saveCartToStorage(cart')
             /\ lastCall' = Call("updateCartQuantity", productId, change, TRUE)
             /\ UNCHANGED <<products, cartSidebar, notification>>

ToggleCart ==
  /\ UNCHANGED notShop
  /\ cartSidebar' = Toggle(cartSidebar)
  /\ lastCall' = Call("toggleCart", 0, 0, TRUE)
  /\ UNCHANGED <<products, cart, localStorage, cartDisplay, notification>>

Checkout ==
  /\ UNCHANGED notShop
  /\ IF CartIsEmpty(cart)
     THEN /\ notification' = Notice("Your cart is empty!", "warning")
          /\ lastCall' = Call("checkout", 0, 0, FALSE)
          /\ UNCHANGED <<products, cart, localStorage, cartSidebar, cartDisplay>>
     ELSE /\ notification' = Notice("Checkout successful!", "success")
          /\ cart' = <<>>
          /\ cartDisplay' = updateCartDisplay(cart')
          /\ localStorage' = saveCartToStorage(cart')
          /\ cartSidebar' = Toggle(cartSidebar)
          /\ lastCall' = Call("checkout", 0, 0, TRUE)
          /\ UNCHANGED products

\* the page is loaded again: the script starts from its initial values and the
\* DOMContentLoaded handler calls loadCartFromStorage
Reload ==
  /\ UNCHANGED notShop
  /\ products' = <<>>
  /\ cartSidebar' = {}
  /\ notification' = Notice("", "")
  /\ IF Truthy(localStorage)
     THEN /\ cart' = JSONparse(localStorage)
          /\ cartDisplay' = updateCartDisplay(cart')
     ELSE /\ cart' = <<>>
          /\ cartDisplay' = [cartCount |-> 0, cartTotal |-> 0]
  /\ lastCall' = Call("loadCartFromStorage", 0, 0, Truthy(localStorage))
  /\ UNCHANGED localStorage

(* ------------------- lines typed at the prompts of the scripts ---------- *)

Yes == <<"y", "e", "s">>

\* nothing was typed: the prompt was not shown
NotAsked == <<"-">>

\* the lines a user types at a yes/no prompt:
\* "yes", "no", "", "Yes", " yes", "yes "
Lines ==
  { Yes, <<"n", "o">>, <<>>, <<"Y", "e", "s">>, <<" ", "y", "e", "s">>, <<"y", "e", "s", " ">> }

RECURSIVE StripLeft(_)
StripLeft(line) == IF line # <<>> /\ line[1] = " " THEN StripLeft(Tail(line)) ELSE line

RECURSIVE StripRight(_)
StripRight(line) ==
  IF line # <<>> /\ line[Len(line)] = " " THEN StripRight(SubSeq(line, 1, Len(line) - 1)) ELSE line

\* read -p "..." name: the variable gets the line without its leading and trailing
\* blanks (none of the lines typed here holds a backslash)
read(line) == StripRight(StripLeft(line))

\* a comparison that does not look at the case of the first letter
IsYes_anyCase(value) == value = Yes \/ value = <<"Y", "e", "s">>

\* [[ $confirm != "yes" ]], [[ $delete_pipelines == "yes" ]]
IsYes(value) == value = Yes

(* ----------------------- the cleanup script ----------------------------- *)

\* the largest number of resources of one kind that a scan finds
MaxResources == 2

\* still running, no exit status yet
NoExit == 0 - 1

\* # Cleanup in proper order to handle dependencies
CleanupOrder ==
  << "cleanup_codepipeline", "cleanup_codebuild", "cleanup_codedeploy",
     "cleanup_ec2_instances", "cleanup_launch_templates", "cleanup_load_balancers",
     "cleanup_s3_buckets", "cleanup_iam_roles", "cleanup_security_groups",
     "cleanup_cloudwatch", "cleanup_vpc" >>

\* the kinds of resource a function scans, in the order of its prompts
KindsOf(name) ==
  CASE name = "cleanup_codepipeline"     -> <<"pipeline">>
    [] name = "cleanup_codebuild"        -> <<"project">>
    [] name = "cleanup_codedeploy"       -> <<"application">>
    [] name = "cleanup_ec2_instances"    -> <<"instance">>
    [] name = "cleanup_launch_templates" -> <<"launch_template">>
    [] name = "cleanup_load_balancers"   -> <<"load_balancer", "target_group">>
    [] name = "cleanup_s3_buckets"       -> <<"bucket">>
    [] name = "cleanup_iam_roles"        -> <<"role">>
    [] name = "cleanup_security_groups"  -> <<"security_group">>
    [] name = "cleanup_cloudwatch"       -> <<"log_group", "alarm">>
    [] name = "cleanup_vpc"              -> <<"vpc">>

\* the kinds whose in-progress executions, builds or deployments are stopped first
Stoppable == {"pipeline", "project", "application"}

\* the kinds whose commands are followed by || echo "..." or || true: a failure
\* is swallowed
Guarded == {"bucket", "role", "security_group", "log_group"}

Cmd(verb, kind, resource) == [verb |-> verb, kind |-> kind, resource |-> resource]

Destructive == {"stop", "delete", "terminate", "detach", "remove"}

\* what is issued before the delete command of one resource
Before(kind, r, running, listed) ==
  CASE kind \in Stoppable ->
         IF listed /\ r \in running THEN <<Cmd("stop", kind, r)>> ELSE <<>>
    [] kind = "bucket" -> <<Cmd("delete", "object", r)>>
    [] kind = "role"   -> <<Cmd("detach", "role", r), Cmd("delete", "role_policy", r),
                            Cmd("remove", "role", r)>>
    [] kind = "vpc"    -> <<Cmd("delete", "nat_gateway", r)>>
    [] OTHER -> <<>>

\* aws ... delete-..., aws ec2 terminate-instances
Delete(kind, r) == Cmd(IF kind = "instance" THEN "terminate" ELSE "delete", kind, r)

RECURSIVE Commands(_, _, _, _, _, _)
\* the loop over the resources found, from resource r on: under set -e a command
\* that fails without a fallback ends the script where it is
Commands(kind, r, found, running, listed, failing) ==
  IF r > found THEN <<>>
  ELSE IF kind = "vpc" /\ r = failing THEN Before(kind, r, running, listed)
  ELSE Before(kind, r, running, listed) \o <<Delete(kind, r)>> \o
         ( IF r = failing /\ kind \notin Guarded THEN <<>>
           ELSE Commands(kind, r + 1, found, running, listed, failing) )

\* aws cloudwatch delete-alarms --alarm-names $ALARMS: one command for all alarms
DeleteAlarms == <<Cmd("delete", "alarm", 0)>>

\* one kind of resource: scan, prompt when something was found, delete on yes
\* in: found, line typed, resources with work in progress, whether the queries for
\* that work were answered, the resource whose delete command fails (0: none)
ScanAndDelete(kind, in) ==
  LET agreed == in.found > 0 /\ IsYes(read(in.line))
      cmds   == IF ~agreed THEN <<>>
                ELSE IF kind = "alarm" THEN DeleteAlarms
                ELSE Commands(kind, 1, in.found, in.running, in.listed, in.failing)
  IN [ issued |-> cmds,
       exit   |-> IF agreed /\ in.failing > 0 /\ kind \notin Guarded THEN 1 ELSE 0 ]

\* what one scan can meet
Inputs(kind) ==
  { in \in [ found   : 0..MaxResources,
             line    : Lines \cup {NotAsked},
             running : SUBSET (1..MaxResources),
             listed  : BOOLEAN,
             failing : 0..MaxResources ] :
      /\ (in.found = 0) = (in.line = NotAsked)
      /\ in.running \subseteq 1..in.found
      /\ kind \notin Stoppable => in.running = {} /\ in.listed
      /\ in.found = 0 => in.listed
      /\ in.failing <= in.found
      /\ IsYes(read(in.line)) \/ in.failing = 0 }

\* the script as it is started: the warning is printed, the prompt is next
CleanupNotStarted ==
  /\ stage = "confirm"
  /\ exitStatus = NoExit
  /\ typed = [confirm |-> NotAsked, answers |-> <<>>]
  /\ scanned = <<>>
  /\ issued = <<>>

\* read -p "Do you want to proceed with the cleanup helper? (yes/no): " confirm
Confirm ==
  /\ UNCHANGED notCleanup
  /\ stage = "confirm"
  /\ \E line \in Lines :
       /\ typed' = [typed EXCEPT !.confirm = line]
       /\ IF ~IsYes(read(line))
          THEN stage' = "exited" /\ exitStatus' = 0
          ELSE stage' = CleanupOrder[1] /\ exitStatus' = NoExit
  /\ UNCHANGED <<scanned, issued>>

StageAfter(name) ==
  LET i == CHOOSE k \in 1..Len(CleanupOrder) : CleanupOrder[k] = name
  IN IF i = Len(CleanupOrder) THEN "completed" ELSE CleanupOrder[i + 1]

\* one cleanup function: its kinds one after the other, the second one only when
\* the first did not end the script
RunFunction(name) ==
  LET kinds == KindsOf(name)
  IN /\ UNCHANGED notCleanup
     /\ stage = name
     /\ \E ins \in [1..Len(kinds) -> UNION {Inputs(kinds[k]) : k \in 1..Len(kinds)}] :
          /\ \A k \in 1..Len(kinds) : ins[k] \in Inputs(kinds[k])
          /\ LET out  == [k \in 1..Len(kinds) |-> ScanAndDelete(kinds[k], ins[k])]
                 last == IF \E k \in 1..Len(kinds) : out[k].exit # 0
                         THEN CHOOSE k \in 1..Len(kinds) :
                                out[k].exit # 0 /\ \A j \in 1..(k - 1) : out[j].exit = 0
                         ELSE Len(kinds)
                 died == out[last].exit # 0
             IN /\ \A k \in (last + 1)..Len(kinds) : ins[k].found = 0
                /\ scanned' = [k \in 1..last |->
                                 [kind |-> kinds[k], found |-> ins[k].found,
                                  running |-> ins[k].running]]
                /\ typed' = [typed EXCEPT !.answers = [k \in 1..last |-> ins[k].line]]
                /\ issued' = IF last = 2 THEN out[1].issued \o out[2].issued ELSE out[1].issued
                /\ stage' = IF died THEN "exited" ELSE StageAfter(name)
                /\ exitStatus' = IF died THEN 1
                                 ELSE IF StageAfter(name) = "completed" THEN 0 ELSE NoExit

CleanupCodepipeline == RunFunction("cleanup_codepipeline")

CleanupCodebuild == RunFunction("cleanup_codebuild")

CleanupCodedeploy == RunFunction("cleanup_codedeploy")

CleanupEc2Instances == RunFunction("cleanup_ec2_instances")

CleanupLaunchTemplates == RunFunction("cleanup_launch_templates")

CleanupLoadBalancers == RunFunction("cleanup_load_balancers")

CleanupS3Buckets == RunFunction("cleanup_s3_buckets")

CleanupIamRoles == RunFunction("cleanup_iam_roles")

CleanupSecurityGroups == RunFunction("cleanup_security_groups")

CleanupCloudwatch == RunFunction("cleanup_cloudwatch")

CleanupVpc == RunFunction("cleanup_vpc")

(* ----------------------- the setup helper script ------------------------ *)

\* how many times the menu is shown in one run
MaxMenus == 6

\* the exit status of an aws command that fails
AwsFailure == 255

Twelve == <<"1", "2">>

\* the lines a user types at "Enter your choice (1-12): ": 1 to 13, "x", ""
ChoiceLines ==
  { <<"1">>, <<"2">>, <<"3">>, <<"4">>, <<"5">>, <<"6">>, <<"7">>, <<"8">>, <<"9">>,
    <<"1", "0">>, <<"1", "1">>, Twelve, <<"1", "3">>, <<"x">>, <<>> }

\* what a helper function can meet: whether the aws queries are answered, whether
\* instances tagged Environment=Production run, whether the application
\* ECommerce-App and the pipeline ECommerce-CICD-Pipeline exist, the key pressed at
\* a y/n prompt
HelperInputs ==
  [ query : BOOLEAN, instances : BOOLEAN, application : BOOLEAN, pipeline : BOOLEAN,
    reply : {"y", "n"} ]

Done(code, message) == [exit |-> code, message |-> message]

\* a bare aws query: its table, or its failing status
Query(in, message) == IF in.query THEN Done(0, message) ELSE Done(AwsFailure, "")

check_vpc(in) == Query(in, "Checking VPC configuration...")

check_ec2_instances(in) == Query(in, "Checking EC2 instances...")

check_iam_roles(in) == Query(in, "Checking IAM roles...")

\* list-applications is bare; list-deployment-groups has the || echo fallback
check_codedeploy(in) ==
  IF ~in.query THEN Done(AwsFailure, "")
  ELSE IF in.application THEN Done(0, "Deployment Groups:")
  ELSE Done(0, "No deployment groups found or application doesn't exist")

check_codebuild(in) == Query(in, "Checking CodeBuild projects...")

check_codepipeline(in) == Query(in, "Checking CodePipeline...")

\* [[ $REPLY =~ ^[Yy]$ ]]
Agrees(reply) == reply \in {"y", "Y"}

test_codedeploy_agent(in) ==
  IF ~in.query THEN Done(AwsFailure, "")
  ELSE IF ~in.instances
  THEN Done(1, "No running EC2 instances found with Environment=Production tag")
  ELSE IF Agrees(in.reply) THEN Done(0, "To test CodeDeploy agent, SSH into each instance")
  ELSE Done(0, "Found instances:")

create_github_structure(in) == Done(0, "GitHub Repository Setup Instructions:")

validate_buildspec(in) == Done(0, "Validating buildspec.yml...")

validate_appspec(in) == Done(0, "Validating appspec.yml...")

\* $(aws codepipeline get-pipeline --name ... 2>/dev/null && echo "true" || echo "false"):
\* the description printed by get-pipeline is captured together with the echo
PipelineExists(in) ==
  IF in.query /\ in.pipeline THEN <<"{ pipeline }", "true">> ELSE <<"false">>

test_pipeline(in) ==
  IF PipelineExists(in) = <<"true">>
  THEN IF ~in.query THEN Done(AwsFailure, "Pipeline exists")
       ELSE IF Agrees(in.reply) THEN Done(0, "Pipeline execution started")
       ELSE Done(0, "Pipeline Status:")
  ELSE Done(0, "Pipeline not found. Please create the pipeline first.")

\* case $choice in ... esac
Case(value, in) ==
  CASE value = <<"1">>      -> check_vpc(in)
    [] value = <<"2">>      -> check_ec2_instances(in)
    [] value = <<"3">>      -> check_iam_roles(in)
    [] value = <<"4">>      -> check_codedeploy(in)
    [] value = <<"5">>      -> check_codebuild(in)
    [] value = <<"6">>      -> check_codepipeline(in)
    [] value = <<"7">>      -> test_codedeploy_agent(in)
    [] value = <<"8">>      -> create_github_structure(in)
    [] value = <<"9">>      -> validate_buildspec(in)
    [] value = <<"1", "0">> -> validate_appspec(in)
    [] value = <<"1", "1">> -> test_pipeline(in)
    [] value = Twelve       -> Done(0, "Exiting setup helper...")
    [] OTHER                -> Done(0, "Invalid option. Please choose 1-12.")

\* set -e: a command that ends with a status other than 0 ends the script
SetE(code) == code # 0

\* the script as it is started
HelperNotStarted ==
  /\ position = "prerequisites"
  /\ exitCode = NoExit
  /\ choice = NotAsked
  /\ shown = 0
  /\ report = ""

\* command -v aws, aws sts get-caller-identity
CheckPrerequisites ==
  /\ UNCHANGED notHelper
  /\ position = "prerequisites"
  /\ \E installed, configured \in BOOLEAN :
       IF ~installed
       THEN position' = "exited" /\ exitCode' = 1 /\ report' = "AWS CLI is not installed"
       ELSE IF ~configured
       THEN position' = "exited" /\ exitCode' = 1 /\ report' = "AWS credentials not configured"
       ELSE position' = "menu" /\ exitCode' = NoExit /\ report' = "Prerequisites check passed"
  /\ UNCHANGED <<choice, shown>>

\* one turn of the while true loop: the menu, read choice, the case
Menu ==
  /\ UNCHANGED notHelper
  /\ position = "menu"
  /\ shown < MaxMenus
  /\ \E line \in ChoiceLines : \E in \in HelperInputs :
       LET done == Case(read(line), in)
       IN /\ shown' = shown + 1
          /\ choice' = line
          /\ report' = done.message
          /\ IF SetE(done.exit)
             THEN position' = "exited" /\ exitCode' = done.exit
             ELSE IF read(line) = Twelve
             THEN position' = "exited" /\ exitCode' = 0
             ELSE position' = "menu" /\ exitCode' = NoExit

(* ------------------------------ the state ------------------------------ *)

\* what the host and its surroundings can be when a deployment begins
EnvSpace ==
  [ variant  : {"set_e", "no_set_e"},
    runtime  : {"ok", "missing", "broken", "unavailable"},
    registry : {"ok", "no_creds", "no_repo", "pull_fail"},
    stopOk   : BOOLEAN,
    launch   : {"running", "restarting", "exited"},
    httpCode : {"200", "301", "500"},
    body     : Bodies,
    latency  : {"under", "over"},
    cstate0  : {"absent", "running", "exited"},
    cache0   : {NoImage, OldImage},
    aws0     : BOOLEAN ]

\* a container left by the previous deployment needs a working runtime and its image
EnvOk(e) ==
  /\ e.cstate0 # "absent" => e.runtime = "ok" /\ e.cache0 = OldImage
  /\ e.cache0 = OldImage => e.runtime \in {"ok", "broken"}

HostOf(e) ==
  [ installed |-> e.runtime \in {"ok", "broken"},
    daemon    |-> e.cstate0 # "absent",
    aws       |-> e.aws0,
    login     |-> FALSE,
    cstate    |-> e.cstate0,
    cimage    |-> IF e.cstate0 = "absent" THEN NoImage ELSE OldImage,
    cache     |-> e.cache0 ]

InitWith(called) ==
  /\ env \in {e \in EnvSpace : EnvOk(e)}
  /\ host = HostOf(env)
  /\ pc = [a \in Attempts |-> IF a \in called THEN HookOrder[1] ELSE "idle"]
  /\ log = [a \in Attempts |-> <<>>]
  /\ outcome = [a \in Attempts |-> "None"]
  /\ obs = [a \in Attempts |-> NoObs]
  /\ PageNotOpened
  /\ CleanupNotStarted
  /\ HelperNotStarted

\* one deploy call
Init == InitWith({"first"})

\* two deploy calls for the same target issued concurrently
InitConc == InitWith(Attempts)

HookIndex(name) == CHOOSE i \in 1..Len(HookOrder) : HookOrder[i] = name

NextHook(name) ==
  IF HookIndex(name) = Len(HookOrder) THEN "done" ELSE HookOrder[HookIndex(name) + 1]

\* a failed hook that does not end the deployment: the next hook still runs
Finish_continue(a, r) ==
  /\ host' = r.h
  /\ log' = [log EXCEPT ![a] = @ \o r.entries]
  /\ obs' = [obs EXCEPT ![a] = r.obs]
  /\ pc' = [pc EXCEPT ![a] = NextHook(pc[a])]
  /\ outcome' = [outcome EXCEPT ![a] =
                   IF r.exit # 0 THEN "Failed"
                   ELSE IF NextHook(pc[a]) = "done" THEN "Succeeded" ELSE "None"]
  /\ UNCHANGED <<env, shopVars, cleanupVars, helperVars>>

\* the agent records the hook's output and goes on, or fails the deployment
\* when the hook exits non-zero
Finish(a, r) ==
  /\ host' = r.h
  /\ log' = [log EXCEPT ![a] = @ \o r.entries]
  /\ obs' = [obs EXCEPT ![a] = r.obs]
  /\ IF r.exit # 0
     THEN /\ pc' = [pc EXCEPT ![a] = "done"]
          /\ outcome' = [outcome EXCEPT ![a] = "Failed"]
     ELSE /\ pc' = [pc EXCEPT ![a] = NextHook(pc[a])]
          /\ outcome' = [outcome EXCEPT ![a] =
                           IF NextHook(pc[a]) = "done" THEN "Succeeded" ELSE "None"]
  /\ UNCHANGED <<env, shopVars, cleanupVars, helperVars>>

\* a wait that lasts until the container is listed as running
WaitOver_untilUp(h) == DockerPsGrep(h)

\* sleep 10, sleep 15: the wait ends after its fixed time, whatever the container does
WaitOver(h) == TRUE

BeforeInstall(a) ==
  /\ pc[a] = "before_install"
  /\ Finish(a, before_install(host))

ApplicationStop(a) ==
  /\ pc[a] = "application_stop"
  /\ Finish(a, application_stop(host))

ApplicationStart(a) ==
  /\ pc[a] = "application_start"
  /\ WaitOver(application_start(host).h)
  /\ Finish(a, application_start(host))

ValidateService(a) ==
  /\ pc[a] = "validate_service"
  /\ WaitOver(host)
  /\ Finish(a, validate_service(host))

Next ==
  \E a \in Attempts :
    \/ BeforeInstall(a)
    \/ ApplicationStop(a)
    \/ ApplicationStart(a)
    \/ ValidateService(a)

Spec == Init /\ [][Next]_vars

SpecConc == InitConc /\ [][Next]_vars

\* the agent keeps running the hooks of a deployment it has begun
FairSpec == Init /\ [][Next]_vars /\ WF_vars(Next)

\* a host on which no deployment was begun
QuietEnv ==
  [ variant |-> "no_set_e", runtime |-> "ok", registry |-> "ok", stopOk |-> TRUE,
    launch |-> "running", httpCode |-> "200", body |-> BodyEcommerceOk,
    latency |-> "under", cstate0 |-> "absent", cache0 |-> NoImage, aws0 |-> TRUE ]

NoDeployment ==
  /\ env = QuietEnv
  /\ host = HostOf(env)
  /\ pc = [a \in Attempts |-> "idle"]
  /\ log = [a \in Attempts |-> <<>>]
  /\ outcome = [a \in Attempts |-> "None"]
  /\ obs = [a \in Attempts |-> NoObs]

\* the page is opened for the first time
ShopInit == NoDeployment /\ PageNotOpened /\ CleanupNotStarted /\ HelperNotStarted

\* what the user and the browser do with the page
ShopNext ==
  \/ LoadProducts
  \/ \E productId \in ProductIds : AddToCart(productId)
  \/ \E productId \in ProductIds : RemoveFromCart(productId)
  \/ \E productId \in ProductIds : \E change \in Changes : UpdateCartQuantity(productId, change)
  \/ ToggleCart
  \/ Checkout
  \/ Reload

ShopSpec == ShopInit /\ [][ShopNext]_vars

CleanupInit == NoDeployment /\ PageNotOpened /\ CleanupNotStarted /\ HelperNotStarted

\* the cleanup script from its first prompt to its end
CleanupNext ==
  \/ Confirm
  \/ CleanupCodepipeline
  \/ CleanupCodebuild
  \/ CleanupCodedeploy
  \/ CleanupEc2Instances
  \/ CleanupLaunchTemplates
  \/ CleanupLoadBalancers
  \/ CleanupS3Buckets
  \/ CleanupIamRoles
  \/ CleanupSecurityGroups
  \/ CleanupCloudwatch
  \/ CleanupVpc

CleanupSpec == CleanupInit /\ [][CleanupNext]_vars

HelperInit == NoDeployment /\ PageNotOpened /\ CleanupNotStarted /\ HelperNotStarted

\* the setup helper from its prerequisite checks to its end
HelperNext == CheckPrerequisites \/ Menu

HelperSpec == HelperInit /\ [][HelperNext]_vars

TypeOK ==
  /\ env \in EnvSpace
  /\ pc \in [Attempts -> {"idle", "done"} \cup {HookOrder[i] : i \in 1..Len(HookOrder)}]
  /\ outcome \in [Attempts -> {"None", "Succeeded", "Failed", "RolledBack"}]

(* ------------------------- helpers of the claims ----------------------- *)

Phases(l) == [i \in 1..Len(l) |-> l[i].phase]

\* consecutive repetitions of one phase count once
RECURSIVE Collapse(_)
Collapse(s) ==
  IF Len(s) <= 1 THEN s
  ELSE IF s[1] = s[2] THEN Collapse(Tail(s))
  ELSE <<s[1]>> \o Collapse(Tail(s))

IsPrefix(s, t) == Len(s) <= Len(t) /\ SubSeq(t, 1, Len(s)) = s

\* the fixed order, or the fixed order up to Starting or Validating followed by
\* one rollback repetition
InOrder(s) ==
  \/ IsPrefix(s, Primary)
  \/ \E k \in {4, 5} : \E j \in 1..Len(Rollback) :
       s = SubSeq(Primary, 1, k) \o SubSeq(Rollback, 1, j)

Count(l, p) == Cardinality({i \in 1..Len(l) : l[i].phase = p})

Active(a) == log[a] # <<>> /\ outcome[a] = "None"

Terminal(a) == outcome[a] # "None"

PrevKnown == env.cstate0 = "running"

HasMarker(body) ==
  \E i \in 1..Len(body) : \E m \in Markers : Contains(LowerLine(body[i]), m)

\* healthy runtime, resolvable artifact, endpoint answering 200 "ecommerce ok"
HealthyScenario ==
  /\ env.runtime = "ok"
  /\ env.registry = "ok"
  /\ env.stopOk
  /\ env.httpCode = "200"
  /\ env.body = BodyEcommerceOk

(* ------------------------------- claims -------------------------------- *)

\* C1: the recorded phases of every attempt follow the fixed order BeforeInstall,
\* Stopping, Installing, Starting, Validating, optionally followed by one rollback
\* repetition Stopping..Validating; nothing out of order, nothing missing
\* (repetitions of the same phase excepted).
C1_PhaseOrder == \A a \in Attempts : InOrder(Collapse(Phases(log[a])))

\* C2: of two deploy calls for the same target at most one attempt is active
\* (has run a phase and is not terminal) at any moment.
C2_OneActiveAttempt == Cardinality({a \in Attempts : Active(a)}) <= 1

\* C3: an attempt is Succeeded only when the container is running, the HTTP probe
\* returned 200 and the body is non-empty and holds the expected marker; with an
\* empty body the attempt never ends Succeeded.
C3_ThreeSignals ==
  \A a \in Attempts :
    /\ outcome[a] = "Succeeded" =>
         /\ Serving(host)
         /\ obs[a].status = "running"
         /\ env.httpCode = "200" /\ obs[a].http = "200"
         /\ env.body # EmptyBody /\ HasMarker(env.body)
    /\ (env.body = EmptyBody /\ pc[a] = "done") => outcome[a] \in {"Failed", "RolledBack"}

C3_Witness ==
  \E a \in Attempts : outcome[a] = "Succeeded" /\ obs[a].response # <<>>

\* C4: when the artifact reference cannot be resolved, Starting is never entered
\* and the attempt ends Failed in Installing.
C4_UnresolvedFailsClosed ==
  \A a \in Attempts :
    env.registry # "ok" =>
      /\ Count(log[a], "Starting") = 0
      /\ pc[a] = "done" => outcome[a] = "Failed" /\ Last(log[a]).phase = "Installing"

StartTimedOutAt(a, i) ==
  /\ log[a][i].phase = "Starting"
  /\ log[a][i].result = "fail"
  /\ log[a][i].message = "Container failed to start"

\* C5: when Starting timed out and a previous artifact is known, a terminal attempt
\* is RolledBack or Failed and has entered Starting exactly once more after the
\* timeout.
C5_StartTimeoutRollsBackOnce ==
  \A a \in Attempts : \A i \in 1..Len(log[a]) :
    (Terminal(a) /\ PrevKnown /\ env.launch = "exited" /\ StartTimedOutAt(a, i)) =>
      /\ outcome[a] \in {"RolledBack", "Failed"}
      /\ Cardinality({j \in (i + 1)..Len(log[a]) : log[a][j].phase = "Starting"}) = 1

\* C6: BeforeInstall or Stopping run while no container ecommerce-app exists
\* succeeds and the attempt goes on to the next phase; it does not fail.
C6_AbsentIsSuccess ==
  [][\A a \in Attempts :
       (host.cstate = "absent" /\ pc[a] \in {"before_install", "application_stop"}
          /\ pc'[a] # pc[a]) =>
         /\ pc'[a] = NextHook(pc[a])
         /\ outcome'[a] = "None"
         /\ Last(log'[a]).result = "ok"
         /\ host'.cstate = "absent"]_vars

C6_Witness ==
  \E a \in Attempts :
    /\ env.cstate0 = "absent"
    /\ pc[a] = "application_start"
    /\ Phases(log[a]) = <<"BeforeInstall", "Stopping">>

\* C7: in the healthy scenario with the new container running, the attempt ends
\* Succeeded with exactly the five entries BeforeInstall..Validating.
C7_HealthyDeploySucceeds ==
  \A a \in Attempts :
    (HealthyScenario /\ env.launch = "running" /\ pc[a] = "done") =>
      /\ outcome[a] = "Succeeded"
      /\ Phases(log[a]) = Primary

\* C8: in the healthy scenario where the new container never reports running and
\* a v1 container was running before, the attempt ends RolledBack with two
\* Starting and two Validating entries.
C8_StartFailureRollsBack ==
  \A a \in Attempts :
    (HealthyScenario /\ env.launch # "running" /\ PrevKnown /\ pc[a] = "done") =>
      /\ outcome[a] = "RolledBack"
      /\ Count(log[a], "Starting") = 2
      /\ Count(log[a], "Validating") = 2

\* C10: no phase whose underlying step failed is logged as successful, and an
\* attempt is Succeeded only if all five phases succeeded for the requested
\* artifact.
C10_NoFalseSuccess ==
  \A a \in Attempts :
    /\ \A i \in 1..Len(log[a]) : log[a][i].result = "ok" => ~log[a][i].cmdFailed
    /\ outcome[a] = "Succeeded" =>
         /\ host.cimage = NewImage
         /\ \A p \in {Primary[k] : k \in 1..Len(Primary)} : Count(log[a], p) >= 1

C12_NoPrevFailsDirectly ==
  \A a \in Attempts :
    ( /\ Terminal(a)
      /\ ~PrevKnown
      /\ Last(log[a]).result = "fail"
      /\ Last(log[a]).phase \in {"Starting", "Validating"} ) =>
      /\ outcome[a] = "Failed"
      /\ \A k \in 1..Len(Rollback) :
           Cardinality({i \in 1..Len(Collapse(Phases(log[a]))) :
                          Collapse(Phases(log[a]))[i] = Rollback[k]}) <= 1

\* C13: Validating fails on its liveness probe only after the probe was repeated.
C13_ProbeIsRetried ==
  \A a \in Attempts :
    ( /\ outcome[a] = "Failed"
      /\ Last(log[a]).phase = "Validating"
      /\ Last(log[a]).message = "HTTP response" ) => obs[a].probes >= 2

\* the runtime cannot be brought up on this host
RuntimeUnavailable == env.runtime \in {"broken", "unavailable"}

\* C15: when the runtime is unavailable the attempt ends Failed in BeforeInstall
\* and never enters Stopping, Installing or Starting.
C15_NoRuntimeFailsEarly ==
  \A a \in Attempts :
    RuntimeUnavailable =>
      /\ Count(log[a], "Stopping") = 0
      /\ Count(log[a], "Installing") = 0
      /\ Count(log[a], "Starting") = 0
      /\ log[a] # <<>> => outcome[a] = "Failed"

\* C16: under fairness every attempt that was begun eventually reaches a terminal
\* outcome; no hook waits forever.
C16_EventuallyTerminal ==
  <>(\A a \in Attempts : pc[a] = "idle" \/ Terminal(a))

\* an attempt that ended after the wait of application_start found no container
C16_Witness ==
  \E a \in Attempts :
    /\ outcome[a] = "Failed"
    /\ StartTimedOutAt(a, Len(log[a]))
    /\ ~DockerPsGrep(host)

\* C17: an attempt is Succeeded only if the measured response time of the health
\* probe is under the ceiling.
C17_LatencyUnderCeiling ==
  \A a \in Attempts :
    outcome[a] = "Succeeded" => env.latency = "under" /\ obs[a].responseTime = "under"

\* C18: a launch never collides with an existing container of the name
\* ecommerce-app: the previous container is stopped and removed before docker run.
C18_NoNameCollision ==
  \A a \in Attempts : \A i \in 1..Len(log[a]) : log[a][i].message # NameConflict

\* C19: once BeforeInstall has run with a container running, the attempt holds the
\* image of that container as its previous reference; an attempt that is RolledBack
\* leaves that image running.
C19_PreviousRecorded ==
  \A a \in Attempts :
    /\ (PrevKnown /\ log[a] # <<>>) => obs[a].previous = OldImage
    /\ outcome[a] = "RolledBack" => Serving(host) /\ host.cimage = OldImage

\* the entries of a log that record a failure
FailureEntries(l) == {i \in 1..Len(l) : l[i].result = "fail"}

\* the phases of a log in which a command failed
Failures(l) == {i \in 1..Len(l) : l[i].cmdFailed}

\* C21: every attempt that is Failed or RolledBack has at least one failure entry
\* in its log, and the log holds as many failure entries as failures occurred.
C21_FailuresLogged ==
  \A a \in Attempts :
    /\ outcome[a] \in {"Failed", "RolledBack"} => FailureEntries(log[a]) # {}
    /\ Cardinality(FailureEntries(log[a])) = Cardinality(Failures(log[a]))

\* C23: application_start run twice in a row with no application_stop in between,
\* the image pullable and the container coming up, succeeds both times and leaves
\* the one running container ecommerce-app that a single run leaves. (Both deploy
\* calls have finished application_stop; one runs application_start and the other
\* runs it next.)
C23_StartIsIdempotent ==
  [][\A a, b \in Attempts :
       ( /\ a # b
         /\ pc[a] = "application_start"
         /\ pc[b] = "application_start"
         /\ pc'[a] # pc[a]
         /\ env.registry = "ok"
         /\ env.launch = "running"
         /\ host.daemon
         /\ host.aws ) =>
         /\ outcome'[a] # "Failed"
         /\ application_start(host').exit = 0
         /\ application_start(host').h = host'
         /\ Serving(host')]_vars

ItemsOf(c, id) == {i \in 1..Len(c) : c[i].id = id}

QuantityOf(c, id) == IF ItemsOf(c, id) = {} THEN 0 ELSE c[CHOOSE i \in ItemsOf(c, id) : TRUE].quantity

\* the items of the other products, in their order
Without(c, id) == SelectSeq(c, LAMBDA item : item.id # id)

\* C22: addToCart of a product of the loaded catalog leaves an item of that id
\* whose quantity is one more than before (1 if there was none) and all other items
\* unchanged; removeFromCart leaves no item of that id and all other items unchanged.
C22_AddRemove ==
  [][ /\ (lastCall'.op = "addToCart" /\ lastCall'.found) =>
           /\ \E i \in ItemsOf(cart', lastCall'.id) :
                cart'[i].quantity = QuantityOf(cart, lastCall'.id) + 1
           /\ Without(cart', lastCall'.id) = Without(cart, lastCall'.id)
      /\ lastCall'.op = "removeFromCart" =>
           /\ ItemsOf(cart', lastCall'.id) = {}
           /\ Without(cart', lastCall'.id) = Without(cart, lastCall'.id) ]_vars

\* a product was added to a cart that holds it and another product
C22_Witness ==
  /\ lastCall.op = "addToCart"
  /\ lastCall.found
  /\ QuantityOf(cart, lastCall.id) >= 2
  /\ Len(cart) >= 2

\* C24: from an empty cart, after any sequence of addToCart, updateCartQuantity,
\* removeFromCart and checkout, the cart holds at most one item per product id and
\* every quantity is at least 1.
C24_CartWellFormed ==
  /\ \A i, j \in 1..Len(cart) : cart[i].id = cart[j].id => i = j
  /\ \A i \in 1..Len(cart) : cart[i].quantity >= 1

\* a quantity was taken down to zero or below and the item is gone
C24_Witness ==
  /\ lastCall.op = "updateCartQuantity"
  /\ lastCall.found
  /\ lastCall.change < 0
  /\ ItemsOf(cart, lastCall.id) = {}
  /\ cart # <<>>

\* the calls that go through saveCartToStorage
Saving(call) ==
  \/ call.op \in {"addToCart", "updateCartQuantity", "checkout"} /\ call.found
  \/ call.op = "removeFromCart"

\* C25: after every operation that changes the cart the value stored under
\* 'cloudmart-cart' is the serialized cart, and parsing it gives the cart back;
\* loadCartFromStorage restores the same cart; addToCart of an unknown product and
\* updateCartQuantity of an absent item leave cart and stored value unchanged.
C25_StoredIsCurrent ==
  [][ /\ Saving(lastCall') =>
           /\ localStorage' = JSONstringify(cart')
           /\ Truthy(localStorage')
           /\ JSONparse(localStorage') = cart'
      /\ lastCall'.op = "loadCartFromStorage" => cart' = cart
      /\ (lastCall'.op \in {"addToCart", "updateCartQuantity"} /\ ~lastCall'.found) =>
           /\ cart' = cart
           /\ localStorage' = localStorage ]_vars

\* a cart of two products, one of them taken twice, was read back from the storage
C25_Witness ==
  /\ lastCall.op = "loadCartFromStorage"
  /\ lastCall.found
  /\ Len(cart) >= 2
  /\ \E i \in 1..Len(cart) : cart[i].quantity >= 2

\* C26: checkout on an empty cart changes neither the cart nor the stored cart nor
\* the open state of the sidebar; checkout on a cart with items leaves the cart
\* empty, stores the empty cart and toggles the sidebar once.
C26_Checkout ==
  [][ lastCall'.op = "checkout" =>
        IF cart = <<>>
        THEN /\ cart' = cart
             /\ localStorage' = localStorage
             /\ cartSidebar' = cartSidebar
        ELSE /\ cart' = <<>>
             /\ localStorage' = <<"[", "]">>
             /\ ("open" \in cartSidebar') # ("open" \in cartSidebar) ]_vars

\* a checkout with items closed the open sidebar
C26_Witness ==
  /\ lastCall.op = "checkout"
  /\ lastCall.found
  /\ cartSidebar = {}
  /\ localStorage = <<"[", "]">>

\* the prompt under which a command is issued
PromptOf(kind) ==
  CASE kind = "nat_gateway" -> "vpc"
    [] kind = "object"      -> "bucket"
    [] kind = "role_policy" -> "role"
    [] OTHER                -> kind

\* the positions of the last function's prompts that were about this kind
Asked(kind) == {k \in DOMAIN scanned : scanned[k].kind = kind}

DependencyOrder ==
  << "cleanup_codepipeline", "cleanup_codebuild", "cleanup_codedeploy",
     "cleanup_ec2_instances", "cleanup_launch_templates", "cleanup_load_balancers",
     "cleanup_s3_buckets", "cleanup_iam_roles", "cleanup_security_groups",
     "cleanup_cloudwatch", "cleanup_vpc", "completed" >>

\* every resource that has work in progress is asked to stop before it is deleted
StopsFirst(cmds, scan) ==
  \A k \in DOMAIN scan : \A r \in scan[k].running : \A i \in 1..Len(cmds) :
    cmds[i] = Cmd("delete", scan[k].kind, r) =>
      \E j \in 1..(i - 1) : cmds[j] = Cmd("stop", scan[k].kind, r)

\* C28: the categories run in the fixed dependency order, and within a category
\* every in-progress execution, build or deployment of a resource is asked to stop
\* before the delete command of that resource is issued.
C28_OrderAndStopFirst ==
  [][ /\ (stage' # stage /\ stage' # "exited") =>
           \/ stage = "confirm" /\ stage' = DependencyOrder[1]
           \/ \E n \in 1..(Len(DependencyOrder) - 1) :
                stage = DependencyOrder[n] /\ stage' = DependencyOrder[n + 1]
      /\ StopsFirst(issued', scanned') ]_vars

\* C29: once the prerequisite checks have passed, every choice other than 12
\* returns to the menu whatever the helper function finds or returns, the loop is
\* left only on 12, and a failing prerequisite check ends the script with status 1
\* before the menu is shown.
C29_MenuUntilTwelve ==
  [][ /\ (position = "menu" /\ shown' # shown /\ read(choice') # Twelve) =>
           /\ position' = "menu"
           /\ exitCode' = NoExit
      /\ (position = "menu" /\ position' # "menu") => read(choice') = Twelve
      /\ (position = "prerequisites" /\ position' = "exited") =>
           /\ exitCode' = 1
           /\ shown' = 0 ]_vars

====
